---- MODULE Spec2Model ----
(***************************************************************************)
(* Batch enrichment pipeline of ai-call-analysis-next:                     *)
(*   retryWithBackoff, categorizeCall and batchCategorizeCallsWithProgress *)
(*   of src/lib/statistics.ts.                                             *)
(* One action per run-to-next-await segment of the async code: a segment   *)
(* starts when a promise settles (provider reply, setTimeout) and runs to  *)
(* the next await.  The log sink is outside the batch: emitted holds the   *)
(* logCallback calls of the latest segment only.                           *)
(***************************************************************************)
EXTENDS Integers, Sequences, FiniteSets, TLC

\* ---------------------------------------------------------------- bounds
MaxCalls == 2          \* longest work-item list explored
MaxLogFrames == 2      \* most LogEvent frames in a response

\* ------------------------------------------------------ program constants
maxRetries == 5
delayBetweenCalls == 2500
errorDelay == 10000
RateLimitBase == 5000
RateLimitCap == 90000
OverloadedBase == 10000
OverloadedCap == 180000
ServerErrorBase == 15000
ServerErrorCap == 120000

VARIABLES
    calls,        \* the work items handed to the batch (order-significant)
    pc,           \* where the batch is suspended
    i,            \* loop index of batchCategorizeCallsWithProgress (0-based)
    results,      \* const results: CategorizationResult[]
    retryCount,   \* retryCount parameter of the running retryWithBackoff
    attempts,     \* invocations of fn made for the current item
    delays,       \* backoff waits started for the current item, in order
    fnError,      \* error thrown by the latest invocation of fn (or NoError)
    caught,       \* error caught by the orchestrator for the current item
    outcome,      \* per finished item: what categorizeCall returned or threw
    emitted,      \* the logCallback calls made by the latest step, in order
    paces,        \* inter-item pacing sleeps started, in order
    timer,        \* ms of the setTimeout being awaited, 0 when none
    inflight,     \* indices of the items with a provider call outstanding
    thrown,       \* error raised by the batch (or NoThrow)
    pushAt,       \* logCallback calls the latest step made before its
                  \* results.push (-1 when the step pushed nothing)
    aborted,      \* the observer's stream request has been aborted
    rpc,          \* position of the streaming handler
    pushed,       \* frames the latest step enqueued on the stream
    closed,       \* controller.close() has run
    records,      \* frames enqueued so far that are not LogEvents
    lastFrame,    \* kind of the last frame enqueued so far
    path,         \* the exit the streaming handler took
    currentModelConfig, \* provider stored by setModelConfig
    callConfig,   \* provider the latest provider call read with getModelConfig
    batchConfig,  \* provider stored when the handler's batch started
    replyText,    \* categorizeCall: text, what the provider returned
    categorized,  \* categorizeCall: what fn returned or threw for text
    sent,         \* ids of the frames the server wrote on the response
    wire,         \* bytes of the response not yet delivered to the reader
    cpc,          \* position of handleAnalyze
    pending,      \* bytes the TextDecoder holds back
    buffer,       \* handleAnalyze: buffer
    result,       \* handleAnalyze: result (id of the frame, or "null")
    handled,      \* ids of the frames given to handleStreamData
    dropped,      \* lines whose JSON.parse threw
    splitPayload, \* some chunk ended inside a frame's payload
    exit,         \* how handleAnalyze ended
    logs,         \* FileUpload state, per instance
    isAnalyzing,
    error,
    abortControllerRef,
    signalAborted,  \* the signal of the instance's AbortController
    homeLogs,     \* Home state
    homeIsAnalyzing,
    homeError,
    currentScreen,
    analysisData,
    stopHandlerRef,
    stopped,      \* the Stop button has been pressed
    callsArg,     \* calculateStatistics: the list it is called on
    stats,        \* what its last call returned
    statsBefore,  \* what the call before that returned
    clock         \* Date.now()

\* the variables of the batch
bvars == <<calls, pc, i, results, retryCount, attempts, delays, fnError, caught,
           outcome, emitted, paces, timer, inflight, thrown, pushAt>>

\* the variables outside the batch
\* the variables of the streaming handler
rvars == <<rpc, pushed, closed, records, lastFrame, path, currentModelConfig>>

\* the variables outside the batch
\* the variables of the page: the receiver, the two FileUpload instances, Home
cvars == <<sent, wire, cpc, pending, buffer, result, handled, dropped,
           splitPayload, exit, logs, isAnalyzing, error, abortControllerRef,
           signalAborted, homeLogs, homeIsAnalyzing, homeError, currentScreen,
           analysisData, stopHandlerRef, stopped>>

\* what the provider calls of the handler's batch see of the configuration
pvars == <<callConfig, batchConfig>>

\* the variables of one run of categorizeCall's fn on a provider text
tvars == <<replyText, categorized>>

\* the variables of calculateStatistics and its caller
svars == <<callsArg, stats, statsBefore, clock>>

\* the variables outside the streaming handler and its batch
ovars == <<aborted, cvars, tvars, svars>>

\* the variables outside the batch
xvars == <<aborted, rvars, pvars, cvars, tvars, svars>>

vars == <<bvars, xvars>>

\* ------------------------------------------------------------ data shapes
Err(s, m, c) == [status |-> s, msg |-> m, code |-> c]

NoError == Err(-1, <<>>, "none")

NoThrow == [tag |-> "none", processed |-> 0, total |-> 0, text |-> <<>>]

L(type, tag, n, m, text) ==
    [type |-> type, tag |-> tag, n |-> n, m |-> m, text |-> text]

Transcripts == <<"t1", "t2", "t3", "t4">>

\* an error object as thrown by callGroqAPI / the Gemini SDK / fetch;
\* status 0 stands for an error object without a status field
ProviderErrors ==
    { Err(429, <<"rate", "limit", "exceeded">>, ""),
      Err(429, <<"too", "many", "requests">>, ""),
      Err(503, <<"service", "unavailable">>, ""),
      Err(500, <<"internal", "error">>, ""),
      Err(400, <<"maximum", "context", "length">>, ""),
      Err(400, <<"request", "too", "large">>, "context_length_exceeded"),
      Err(400, <<"bad", "request">>, ""),
      Err(0, <<"quota", "exceeded">>, "") }

\* the JSON object found in a provider reply for transcript t
ParsedReplies(t) ==
    { [categories |-> <<"A", "B">>, sentiment |-> "positive", summary |-> <<t>>],
      [categories |-> <<>>, sentiment |-> "mixed", summary |-> <<>>] }

\* ------------------------------------------------------- pure helpers
Min(a, b) == IF a < b THEN a ELSE b

RECURSIVE Pow2(_)
Pow2(n) == IF n = 0 THEN 1 ELSE 2 * Pow2(n - 1)

\* String.prototype.includes, at word granularity
Includes(msg, w) == \E k \in 1..Len(msg) : msg[k] = w

\* ------------------------------------------------------ retryWithBackoff
\* variant: off by one in the retry bound
ShouldRetryInclusive(rc) == rc <= maxRetries

ShouldRetry(rc) == rc < maxRetries

\* variant: the cap is not applied
RetryDelayUncapped(base, cap, rc) == base * Pow2(rc)

RetryDelay(base, cap, rc) == Min(base * Pow2(rc), cap)

\* variant: the three markers joined with && instead of ||
ContextLengthMarkerAll(err) ==
    /\ err.code = "context_length_exceeded"
    /\ Includes(err.msg, "length")
    /\ Includes(err.msg, "context")

ContextLengthMarker(err) ==
    \/ err.code = "context_length_exceeded"
    \/ Includes(err.msg, "length")
    \/ Includes(err.msg, "context")

\* variant: the server-error test starts at status 400 instead of 500
ClassifyFrom400(err, rc) ==
    IF err.status = 429 /\ ShouldRetry(rc) THEN "rateLimit"
    ELSE IF err.status = 503 /\ ShouldRetry(rc) THEN "overloaded"
    ELSE IF err.status = 400 /\ ContextLengthMarker(err) THEN "contextLength"
    ELSE IF err.status >= 400 /\ err.status < 600 /\ ShouldRetry(rc)
         THEN "serverError"
    ELSE "throw"

\* variant: the status-429 branch is missing
ClassifyNoRateLimit(err, rc) ==
    IF err.status = 503 /\ ShouldRetry(rc) THEN "overloaded"
    ELSE IF err.status = 400 /\ ContextLengthMarker(err) THEN "contextLength"
    ELSE IF err.status >= 500 /\ err.status < 600 /\ ShouldRetry(rc)
         THEN "serverError"
    ELSE "throw"

\* the if-chain of the catch block, in source order
Classify(err, rc) ==
    IF err.status = 429 /\ ShouldRetry(rc) THEN "rateLimit"
    ELSE IF err.status = 503 /\ ShouldRetry(rc) THEN "overloaded"
    ELSE IF err.status = 400 /\ ContextLengthMarker(err) THEN "contextLength"
    ELSE IF err.status >= 500 /\ err.status < 600 /\ ShouldRetry(rc)
         THEN "serverError"
    ELSE "throw"

Retryable == {"rateLimit", "overloaded", "serverError"}

DelayFor(cls, rc) ==
    CASE cls = "rateLimit" -> RetryDelay(RateLimitBase, RateLimitCap, rc)
      [] cls = "overloaded" -> RetryDelay(OverloadedBase, OverloadedCap, rc)
      [] cls = "serverError" -> RetryDelay(ServerErrorBase, ServerErrorCap, rc)

\* variant: the tip of the 503 branch is logged as a warning too
RetryLogsTipWarning(cls, rc) ==
    CASE cls = "rateLimit" ->
           << L("warning", "rate_limit_retry", DelayFor(cls, rc) \div 1000, rc + 1, <<>>) >>
      [] cls = "overloaded" ->
           << L("warning", "overloaded_retry", DelayFor(cls, rc) \div 1000, rc + 1, <<>>),
              L("warning", "overloaded_tip", 0, 0, <<>>) >>
      [] cls = "serverError" ->
           << L("warning", "server_error_retry", DelayFor(cls, rc) \div 1000, rc + 1, <<>>) >>

\* the logCallback calls made before the backoff sleep
RetryLogs(cls, rc) ==
    CASE cls = "rateLimit" ->
           << L("warning", "rate_limit_retry", DelayFor(cls, rc) \div 1000, rc + 1, <<>>) >>
      [] cls = "overloaded" ->
           << L("warning", "overloaded_retry", DelayFor(cls, rc) \div 1000, rc + 1, <<>>),
              L("info", "overloaded_tip", 0, 0, <<>>) >>
      [] cls = "serverError" ->
           << L("warning", "server_error_retry", DelayFor(cls, rc) \div 1000, rc + 1, <<>>) >>

\* new Error("The data is too large to process. Please try with fewer calls...")
TooLargeError == Err(0, <<"data", "too", "large", "try", "fewer", "calls">>, "")

\* ---------------------------------------------------------- categorizeCall
NoJsonError == Err(0, <<"No", "JSON", "found">>, "")

InvalidJsonError == Err(0, <<"Invalid", "JSON">>, "")

NoResult == [categories |-> <<>>, sentiment |-> "", summary |-> <<>>]

\* defaulting applied to the parsed object
Normalize(parsed) ==
    [categories |-> IF parsed.categories = <<>> THEN <<"Unknown">>
                    ELSE parsed.categories,
     sentiment |-> IF parsed.sentiment \in {"positive", "neutral", "negative"}
                   THEN parsed.sentiment ELSE "neutral",
     summary |-> IF parsed.summary = <<>> THEN <<"No", "summary", "available">>
                 ELSE parsed.summary]

\* ------------------------------------- batchCategorizeCallsWithProgress
\* variant: the summary drops the error message
FallbackNoMessage(err) ==
    [categories |-> <<"UNCATEGORIZED - API ERROR">>,
     sentiment |-> "neutral",
     summary |-> <<"Failed", "to", "analyze:", "Unknown", "error">>]

Fallback(err) ==
    [categories |-> <<"UNCATEGORIZED - API ERROR">>,
     sentiment |-> "neutral",
     summary |-> <<"Failed", "to", "analyze:">> \o
                 (IF err.msg = <<>> THEN <<"Unknown", "error">> ELSE err.msg)]

\* variant: the status is read from the wrong field
IsFatalWrongField(err) == err.code = "429" /\ Includes(err.msg, "exceeded")

\* variant: the message test is missing
IsFatalStatusOnly(err) == err.status = 429

IsFatal(err) == err.status = 429 /\ Includes(err.msg, "exceeded")

\* variant: unshift instead of push
PushFront(rs, r) == <<r>> \o rs

Push(rs, r) == Append(rs, r)

\* results.length as interpolated into the fatal error and its log line
ProcessedCount(rs) == Len(rs)

ProgressLog(idx) == L("progress", "processing_call", idx + 1, Len(calls), <<>>)

SuccessCount(rs) ==
    Cardinality({k \in 1..Len(rs) :
                   ~ \E c \in 1..Len(rs[k].categories) :
                        rs[k].categories[c] = "UNCATEGORIZED - API ERROR"})

\* the log lines after the loop
FinalLogs(rs) ==
    << L("success", "batch_complete", 0, 0, <<>>),
       L("success", "success_count", SuccessCount(rs), Len(calls), <<>>) >>
    \o (IF Len(rs) - SuccessCount(rs) > 0
        THEN << L("warning", "failure_count", Len(rs) - SuccessCount(rs), 0, <<>>) >>
        ELSE <<>>)
    \o << L("info", "total_time", 0, 0, <<>>) >>

\* fn is invoked: the provider request of item idx goes out
Dispatch(idx, rc, lg) ==
    /\ pc' = "call"
    /\ i' = idx
    /\ retryCount' = rc
    /\ attempts' = IF rc = 0 THEN 1 ELSE attempts + 1
    /\ delays' = IF rc = 0 THEN <<>> ELSE delays
    /\ caught' = NoError
    /\ emitted' = Append(lg, L("info", "analyzing", 0, 0, <<calls[idx + 1].transcript>>))
    /\ inflight' = inflight \cup {idx}
    /\ timer' = 0
    /\ pushAt' = -1
    /\ UNCHANGED <<results, outcome, paces, thrown>>

\* variant: the pacing promise is not awaited, the next iteration starts at once
SleepNotAwaited(ms, lg, rs) ==
    /\ pc' = "call"
    /\ timer' = ms
    /\ paces' = Append(paces, ms)
    /\ emitted' = lg \o << L("progress", "processing_call", i + 2, Len(calls), <<>>),
                        L("info", "analyzing", 0, 0, <<calls[i + 2].transcript>>) >>
    /\ results' = rs
    /\ inflight' = (inflight \ {i}) \cup {i + 1}
    /\ i' = i + 1
    /\ retryCount' = 0
    /\ attempts' = 1
    /\ delays' = <<>>
    /\ UNCHANGED thrown

\* await new Promise(resolve => setTimeout(resolve, ms)) between two items
Sleep(ms, lg, rs) ==
    /\ pc' = "pace"
    /\ timer' = ms
    /\ paces' = Append(paces, ms)
    /\ emitted' = lg
    /\ results' = rs
    /\ inflight' = inflight \ {i}
    /\ UNCHANGED <<i, retryCount, attempts, delays, thrown>>

\* loop exit: closing log lines, return results
Return(lg, rs) ==
    /\ pc' = "returned"
    /\ timer' = 0
    /\ emitted' = lg \o FinalLogs(rs)
    /\ results' = rs
    /\ inflight' = inflight \ {i}
    /\ UNCHANGED <<i, retryCount, attempts, delays, paces, thrown>>

\* throw new Error(`Rate limit exceeded after retries. Processed n/N calls. msg`)
Throw(lg, rs, err) ==
    /\ pc' = "thrown"
    /\ timer' = 0
    /\ thrown' = [tag |-> "rate_limit_exceeded_after_retries",
                  processed |-> ProcessedCount(rs),
                  total |-> Len(calls),
                  text |-> err.msg]
    /\ emitted' = lg \o << L("error", "critical_rate_limit", 0, 0, <<>>),
                        L("info", "processed_before", ProcessedCount(rs), 0, <<>>) >>
    /\ results' = rs
    /\ inflight' = inflight \ {i}
    /\ UNCHANGED <<i, retryCount, attempts, delays, paces>>

\* the rest of the try block once categorizeCall has returned r
OrchestratorTry(r, lg) ==
    LET rs == Push(results, r)
        lg2 == lg \o << L("success", "call_processed", i + 1, 0, <<>>),
                        L("info", "categories", 0, 0, r.categories),
                        L("info", "sentiment", 0, 0, <<r.sentiment>>) >>
        lg3 == lg2 \o << L("info", "waiting_2_5s", 0, 0, <<>>),
                         L("info", "progress_stat", i + 1, Len(calls), <<>>),
                         L("info", "time_remaining", 0, 0, <<>>) >>
    IN  /\ caught' = NoError
        /\ pushAt' = Len(lg)
        /\ outcome' = Append(outcome, [item |-> i, ok |-> TRUE,
                                       result |-> r, error |-> NoError])
        /\ IF i < Len(calls) - 1
           THEN Sleep(delayBetweenCalls, lg3, rs)
           ELSE Return(lg2, rs)

\* variant: the catch block waits delayBetweenCalls like the try block
OrchestratorCatchShortWait(err, lg) ==
    LET rs == Push(results, Fallback(err))
        lg2 == lg \o << L("error", "error_processing_call", i + 1, 0, err.msg),
                        L("warning", "using_fallback", 0, 0, <<>>),
                        L("warning", "marked_uncategorized", i + 1, 0, <<>>) >>
    IN  /\ caught' = err
        /\ pushAt' = Len(lg) + 2
        /\ outcome' = Append(outcome, [item |-> i, ok |-> FALSE,
                                       result |-> NoResult, error |-> err])
        /\ IF IsFatal(err)
           THEN Throw(lg2, rs, err)
           ELSE IF i < Len(calls) - 1
           THEN Sleep(delayBetweenCalls,
                      Append(lg2, L("info", "waiting_10s", 0, 0, <<>>)), rs)
           ELSE Return(lg2, rs)

\* the catch block of the loop body, entered with the error err
OrchestratorCatch(err, lg) ==
    LET rs == Push(results, Fallback(err))
        lg2 == lg \o << L("error", "error_processing_call", i + 1, 0, err.msg),
                        L("warning", "using_fallback", 0, 0, <<>>),
                        L("warning", "marked_uncategorized", i + 1, 0, <<>>) >>
    IN  /\ caught' = err
        /\ pushAt' = Len(lg) + 2
        /\ outcome' = Append(outcome, [item |-> i, ok |-> FALSE,
                                       result |-> NoResult, error |-> err])
        /\ IF IsFatal(err)
           THEN Throw(lg2, rs, err)
           ELSE IF i < Len(calls) - 1
           THEN Sleep(errorDelay, Append(lg2, L("info", "waiting_10s", 0, 0, <<>>)), rs)
           ELSE Return(lg2, rs)

\* the catch block of retryWithBackoff, entered with the error err of fn
RetryCatch(err, lg) ==
    LET cls == Classify(err, retryCount)
    IN  IF cls \in Retryable
        THEN /\ pc' = "backoff"
             /\ timer' = DelayFor(cls, retryCount)
             /\ delays' = Append(delays, DelayFor(cls, retryCount))
             /\ emitted' = lg \o RetryLogs(cls, retryCount)
             /\ inflight' = inflight \ {i}
             /\ pushAt' = -1
             /\ UNCHANGED <<i, results, retryCount, attempts, caught, outcome,
                            paces, thrown>>
        ELSE IF cls = "contextLength"
        THEN OrchestratorCatch(TooLargeError,
                 Append(lg, L("error", "context_length_exceeded", 0, 0, <<>>)))
        ELSE OrchestratorCatch(err, lg)

\* ---------------------------------------------------------------- actions
\* Home renders one FileUpload in the upload screen and, while it is
\* analyzing, a second one inside the progress panel
Inst == {"upload", "panel"}

\* fn has not run
NotCategorized == [state |-> "none", tags |-> <<>>]

\* calculateStatistics has not been called
NoSnapshot == [state |-> "none"]

NoStatistics ==
    /\ callsArg = <<>>
    /\ stats = NoSnapshot
    /\ statsBefore = NoSnapshot
    /\ clock = 0

\* categorizeCall's fn is not under study
NoReply ==
    /\ replyText = <<>>
    /\ categorized = NotCategorized

\* the page as first rendered, with an empty response
PageLoaded ==
    /\ cpc = "idle"
    /\ pending = <<>>
    /\ buffer = <<>>
    /\ result = "null"
    /\ handled = <<>>
    /\ dropped = 0
    /\ splitPayload = FALSE
    /\ exit = "none"
    /\ logs = [c \in Inst |-> <<>>]
    /\ isAnalyzing = [c \in Inst |-> FALSE]
    /\ error = [c \in Inst |-> ""]
    /\ abortControllerRef = [c \in Inst |-> "null"]
    /\ signalAborted = [c \in Inst |-> FALSE]
    /\ homeLogs = <<>>
    /\ homeIsAnalyzing = FALSE
    /\ homeError = "null"
    /\ currentScreen = "upload"
    /\ analysisData = FALSE
    /\ stopHandlerRef = "null"
    /\ stopped = FALSE

Init ==
    /\ calls \in { [k \in 1..n |-> [transcript |-> Transcripts[k]]] : n \in 0..MaxCalls }
    /\ pc = "idle"
    /\ i = 0
    /\ results = <<>>
    /\ retryCount = 0
    /\ attempts = 0
    /\ delays = <<>>
    /\ fnError = NoError
    /\ caught = NoError
    /\ outcome = <<>>
    /\ emitted = <<>>
    /\ paces = <<>>
    /\ timer = 0
    /\ inflight = {}
    /\ thrown = NoThrow
    /\ pushAt = -1
    /\ aborted = FALSE
    /\ rpc = "idle"
    /\ pushed = <<>>
    /\ closed = FALSE
    /\ records = 0
    /\ lastFrame = "none"
    /\ path = "none"
    /\ currentModelConfig = "unset"
    /\ callConfig = "unset"
    /\ batchConfig = "unset"
    /\ sent = <<>>
    /\ wire = <<>>
    /\ PageLoaded
    /\ NoReply
    /\ NoStatistics

\* batchCategorizeCallsWithProgress is called: runs to the first provider call
StartBatch ==
    /\ pc = "idle"
    /\ LET lg == << L("info", "starting_batch", 0, 0, <<>>),
                    L("info", "total_calls", Len(calls), 0, <<>>),
                    L("info", "estimated_time", Len(calls), 0, <<>>) >>
       IN  IF Len(calls) = 0
           THEN Return(lg, <<>>) /\ UNCHANGED <<caught, outcome, pushAt>>
           ELSE Dispatch(0, 0, Append(lg, ProgressLog(0)))
    /\ UNCHANGED <<calls, fnError>>

\* the provider call rejects (HTTP error status, network failure)
ProviderFail ==
    /\ pc = "call"
    /\ \E err \in ProviderErrors :
          /\ fnError' = err
          /\ RetryCatch(err, <<>>)
    /\ UNCHANGED calls

\* the provider replies with text that holds no {...}
ReplyNoJson ==
    /\ pc = "call"
    /\ fnError' = NoJsonError
    /\ RetryCatch(NoJsonError,
                  << L("error", "extract_json_failed", 0, 0, <<>>),
                     L("error", "response_detail", 0, 0, <<>>) >>)
    /\ UNCHANGED calls

\* the provider replies with a {...} that JSON.parse rejects
ReplyBadJson ==
    /\ pc = "call"
    /\ fnError' = InvalidJsonError
    /\ RetryCatch(InvalidJsonError,
                  << L("error", "parse_json_failed", 0, 0, <<>>),
                     L("error", "json_detail", 0, 0, <<>>) >>)
    /\ UNCHANGED calls

\* the provider replies with a JSON object: fn returns the defaulted result
ReplyParsed ==
    /\ pc = "call"
    /\ \E parsed \in ParsedReplies(calls[i + 1].transcript) :
          LET r == Normalize(parsed)
          IN  OrchestratorTry(r,
                  << L("success", "call_analyzed", Len(r.categories), 0, <<r.sentiment>>) >>)
    /\ fnError' = NoError
    /\ UNCHANGED calls

\* variant: the recursive call passes retryCount unchanged
BackoffDoneSameCount ==
    /\ pc = "backoff"
    /\ Dispatch(i, retryCount, <<>>)
    /\ fnError' = NoError
    /\ UNCHANGED calls

\* the backoff setTimeout fires: retryWithBackoff(fn, maxRetries, retryCount + 1)
BackoffDone ==
    /\ pc = "backoff"
    /\ Dispatch(i, retryCount + 1, <<>>)
    /\ fnError' = NoError
    /\ UNCHANGED calls

\* the pacing setTimeout fires: next loop iteration up to its provider call
PaceDone ==
    /\ pc = "pace"
    /\ Dispatch(i + 1, 0, << ProgressLog(i + 1) >>)
    /\ fnError' = NoError
    /\ UNCHANGED calls

\* the batch called on its own, as by the analyze route
Next ==
    \/ StartBatch /\ UNCHANGED xvars
    \/ ProviderFail /\ UNCHANGED xvars
    \/ ReplyNoJson /\ UNCHANGED xvars
    \/ ReplyBadJson /\ UNCHANGED xvars
    \/ ReplyParsed /\ UNCHANGED xvars
    \/ BackoffDone /\ UNCHANGED xvars
    \/ PaceDone /\ UNCHANGED xvars

Spec == Init /\ [][Next]_vars

\* the batch when every provider call settles and every timer fires: a step
\* that can be taken is taken
SpecLive == Init /\ [][Next]_vars /\ WF_vars(Next)

\* ------------------------------------------- analyze-stream route: POST
\* a frame is the object handed to JSON.stringify: the keys it carries, the
\* value of success (FALSE when the key is absent), a log's type, and a tag
\* standing for its text
LogFrame(l) ==
    [keys |-> {"message", "type", "timestamp"}, success |-> FALSE,
     type |-> l.type, tag |-> l.tag]

RejectFrame(tag) ==
    [keys |-> {"error"}, success |-> FALSE, type |-> "", tag |-> tag]

SuccessRecord ==
    [keys |-> {"success", "message", "data"}, success |-> TRUE,
     type |-> "", tag |-> "analyzed"]

FailureRecord(tag) ==
    [keys |-> {"success", "error"}, success |-> FALSE, type |-> "", tag |-> tag]

RouteLog(type, tag) == LogFrame(L(type, tag, 0, 0, <<>>))

IsLogEvent(f) == f.keys = {"message", "type", "timestamp"}

\* sendLog for each entry of ls: an enqueue on a cancelled stream throws and
\* the writer swallows it
SendLogs(ls) ==
    IF aborted THEN <<>> ELSE [k \in 1..Len(ls) |-> LogFrame(ls[k])]

\* the frames fr reach the stream
Emit(fr) ==
    /\ pushed' = fr
    /\ records' = records + Cardinality({k \in 1..Len(fr) : ~ IsLogEvent(fr[k])})
    /\ lastFrame' = IF fr = <<>> THEN lastFrame
                    ELSE IF IsLogEvent(fr[Len(fr)]) THEN "log" ELSE "record"

\* variant: the record is enqueued and the stream is left open
TerminateNoClose(ls, rec, p) ==
    /\ path' = p
    /\ rpc' = "closed"
    /\ Emit(Append(SendLogs(ls), rec))
    /\ UNCHANGED closed

\* controller.enqueue(rec); controller.close() after the logs ls: on a
\* cancelled stream the enqueue throws, in the catch block too, and the
\* handler ends with nothing pushed
Terminate(ls, rec, p) ==
    /\ path' = p
    /\ IF aborted
       THEN /\ rpc' = "errored"
            /\ Emit(<<>>)
            /\ UNCHANGED closed
       ELSE /\ rpc' = "closed"
            /\ Emit(Append(SendLogs(ls), rec))
            /\ closed' = TRUE

\* the catch block of the handler
RouteCatch(ls, tag) ==
    Terminate(Append(ls, L("error", tag, 0, 0, <<>>)), FailureRecord(tag), "exception")

Providers == {"", "gemini", "groq", "other"}

\* validateExcelStructure on the parsed rows
ValidationErrors(rows, hasTranscript, hasPhoneNumber) ==
    IF Len(rows) = 0 THEN <<"empty">>
    ELSE (IF hasTranscript THEN <<>> ELSE <<"no_transcript">>)
         \o (IF hasPhoneNumber THEN <<>> ELSE <<"no_phone">>)

ParsingLogs ==
    << L("info", "parsing", 0, 0, <<>>), L("info", "file_size", 0, 0, <<>>) >>

ParsedLogs ==
    ParsingLogs \o
    << L("info", "found_sheets", 0, 0, <<>>), L("info", "using_sheet", 0, 0, <<>>),
       L("success", "parsed_records", Len(calls), 0, <<>>),
       L("info", "validating", 0, 0, <<>>),
       L("info", "validating_records", Len(calls), 0, <<>>) >>

ValidatedLogs ==
    ParsedLogs \o
    << L("success", "validation_passed", 0, 0, <<>>),
       L("info", "found_calls", Len(calls), 0, <<>>),
       L("info", "transforming", Len(calls), 0, <<>>),
       L("success", "transformed", Len(calls), 0, <<>>),
       L("info", "starting_ai", Len(calls), 0, <<>>) >>

\* the request arrives: the stream starts and awaits request.formData()
Post ==
    /\ rpc = "idle"
    /\ rpc' = "formData"
    /\ Emit(<<>>)
    /\ UNCHANGED <<closed, path, currentModelConfig>>

\* request.formData() rejects
FormDataFails ==
    /\ rpc = "formData"
    /\ RouteCatch(<<>>, "form_error")
    /\ UNCHANGED currentModelConfig

\* request.formData() resolves: the request checks, up to file.arrayBuffer()
FormDataRead ==
    /\ rpc = "formData"
    /\ \E file \in BOOLEAN, provider \in Providers, model \in BOOLEAN, excel \in BOOLEAN :
        IF ~ file
        THEN /\ Terminate(<<>>, RejectFrame("no_file"), "no_file")
             /\ UNCHANGED currentModelConfig
        ELSE IF provider = "" \/ ~ model
        THEN /\ Terminate(<<>>, RejectFrame("no_provider"), "no_provider")
             /\ UNCHANGED currentModelConfig
        ELSE IF provider # "gemini" /\ provider # "groq"
        THEN /\ Terminate(<<>>, RejectFrame("invalid_provider"), "invalid_provider")
             /\ UNCHANGED currentModelConfig
        ELSE /\ currentModelConfig' = provider
             /\ IF ~ excel
                THEN Terminate(<< L("info", "using_model", 0, 0, <<>>) >>,
                               RejectFrame("not_excel"), "not_excel")
                ELSE /\ rpc' = "arrayBuffer"
                     /\ Emit(SendLogs(<< L("info", "using_model", 0, 0, <<>>) >>))
                     /\ UNCHANGED <<closed, path>>

\* file.arrayBuffer() resolves and XLSX.read or parseExcelFile throws
FileUnreadable ==
    /\ rpc = "arrayBuffer"
    /\ \E ls \in {ParsingLogs, SubSeq(ParsedLogs, 1, 4)} : RouteCatch(ls, "parse_error")
    /\ UNCHANGED currentModelConfig

\* file.arrayBuffer() resolves and the rows fail validateExcelStructure
FileInvalid ==
    /\ rpc = "arrayBuffer"
    /\ \E hasTranscript \in BOOLEAN, hasPhoneNumber \in BOOLEAN :
        /\ ValidationErrors(calls, hasTranscript, hasPhoneNumber) # <<>>
        /\ Terminate(Append(ParsedLogs, L("error", "validation_failed", 0, 0, <<>>)),
                     RejectFrame("invalid_structure"), "invalid_structure")
    /\ UNCHANGED currentModelConfig

\* the batch runs under the handler: its log calls become frames
Forward(ls) ==
    /\ rpc' = "batch"
    /\ Emit(SendLogs(ls))
    /\ callConfig' = IF pc' = "call" THEN currentModelConfig ELSE callConfig
    /\ UNCHANGED <<closed, path, currentModelConfig>>

\* file.arrayBuffer() resolves, the rows validate, the batch is called
FileRead ==
    /\ rpc = "arrayBuffer"
    /\ ValidationErrors(calls, TRUE, TRUE) = <<>>
    /\ StartBatch
    /\ Forward(ValidatedLogs \o emitted')

\* the batch resolved: results are joined to the calls by index and sent
BatchResolved ==
    /\ rpc = "batch"
    /\ pc = "returned"
    /\ IF Len(results) < Len(calls)
       THEN RouteCatch(<<>>, "type_error")
       ELSE Terminate(<< L("info", "calculating", 0, 0, <<>>),
                         L("success", "complete", 0, 0, <<>>) >>,
                      SuccessRecord, "success")
    /\ UNCHANGED currentModelConfig

\* the batch rejected: the catch block
BatchRejected ==
    /\ rpc = "batch"
    /\ pc = "thrown"
    /\ RouteCatch(<<>>, thrown.tag)
    /\ UNCHANGED currentModelConfig

\* the consumer of the stream goes away: the stream is cancelled
RequestAborted ==
    /\ rpc \in {"formData", "arrayBuffer", "batch"}
    /\ ~ aborted
    /\ aborted' = TRUE
    /\ UNCHANGED <<bvars, rvars, pvars, cvars, tvars, svars>>

NextStream ==
    \/ Post /\ UNCHANGED <<bvars, pvars, ovars>>
    \/ FormDataFails /\ UNCHANGED <<bvars, pvars, ovars>>
    \/ FormDataRead /\ UNCHANGED <<bvars, pvars, ovars>>
    \/ FileUnreadable /\ UNCHANGED <<bvars, pvars, ovars>>
    \/ FileInvalid /\ UNCHANGED <<bvars, pvars, ovars>>
    \/ FileRead /\ batchConfig' = currentModelConfig /\ UNCHANGED ovars
    \/ rpc = "batch" /\ ProviderFail /\ Forward(emitted') /\ UNCHANGED <<batchConfig, ovars>>
    \/ rpc = "batch" /\ ReplyNoJson /\ Forward(emitted') /\ UNCHANGED <<batchConfig, ovars>>
    \/ rpc = "batch" /\ ReplyBadJson /\ Forward(emitted') /\ UNCHANGED <<batchConfig, ovars>>
    \/ rpc = "batch" /\ ReplyParsed /\ Forward(emitted') /\ UNCHANGED <<batchConfig, ovars>>
    \/ rpc = "batch" /\ BackoffDone /\ Forward(emitted') /\ UNCHANGED <<batchConfig, ovars>>
    \/ rpc = "batch" /\ PaceDone /\ Forward(emitted') /\ UNCHANGED <<batchConfig, ovars>>
    \/ BatchResolved /\ UNCHANGED <<bvars, pvars, ovars>>
    \/ BatchRejected /\ UNCHANGED <<bvars, pvars, ovars>>

\* another request handled by the same process (analyze, analyze-stream or
\* generate-report) reaches its setModelConfig while the batch is in flight
OtherRequest ==
    /\ rpc = "batch"
    /\ pc \in {"call", "backoff", "pace"}
    /\ \E provider \in {"gemini", "groq"} :
          /\ provider # currentModelConfig
          /\ currentModelConfig' = provider
    /\ UNCHANGED <<bvars, pvars, ovars, rpc, pushed, closed, records, lastFrame, path>>

\* the streaming handler with a consumer that stays
SpecStream == Init /\ [][NextStream]_vars

\* the streaming handler with a consumer that may go away
SpecCancel == Init /\ [][NextStream \/ RequestAborted]_vars

\* the streaming handler in a process that serves other requests too
SpecShared == Init /\ [][NextStream \/ OtherRequest]_vars

\* ------------------------------------- FileUpload: receiving the stream
\* the instance whose Analyze button the user can press
Runner == "upload"

LogIds == <<"log1", "log2", "log3", "log4">>

\* what JSON.parse gives back for the text of the frame id
ClientFrame(id) ==
    CASE id = "ok" -> SuccessRecord
      [] id = "fail" -> FailureRecord("boom")
      [] id = "reject" -> RejectFrame("no_file")
      [] OTHER -> LogFrame(L("info", id, 0, 0, <<>>))

\* the characters of a frame's payload: an object in braces, a LogEvent's
\* message holding an emoji; "bad" is an object whose closing brace is lost
Payload(id) ==
    IF id = "bad" THEN <<"{", "bad">>
    ELSE IF IsLogEvent(ClientFrame(id)) THEN <<"{", id, "emoji", "}">>
    ELSE <<"{", id, "}">>

\* TextEncoder: the emoji takes two bytes
RECURSIVE Utf8(_)
Utf8(cs) ==
    IF cs = <<>> THEN <<>>
    ELSE (IF cs[1] = "emoji" THEN <<"e1", "e2">> ELSE <<cs[1]>>) \o Utf8(Tail(cs))

\* `data: ${json}\n\n`, the prefix in two bytes
FrameBytes(id) == <<"da", "ta: ">> \o Utf8(Payload(id)) \o <<"nl", "nl">>

RECURSIVE WireOf(_)
WireOf(ids) ==
    IF ids = <<>> THEN <<>> ELSE FrameBytes(ids[1]) \o WireOf(Tail(ids))

\* the responses explored: an unparsable frame or none, LogEvents, an ending
Endings == { <<"ok">>, <<"fail">>, <<"reject">>, <<>> }

Responses ==
    { (IF bad THEN <<"bad">> ELSE <<>>) \o SubSeq(LogIds, 1, k) \o e :
        bad \in BOOLEAN, k \in 0..MaxLogFrames, e \in Endings }

\* TextDecoder.decode(value, {stream: true}) on held-back bytes plus a chunk
RECURSIVE DecodeChars(_)
DecodeChars(bs) ==
    IF bs = <<>> THEN <<>>
    ELSE IF bs[1] # "e1" THEN <<bs[1]>> \o DecodeChars(Tail(bs))
    ELSE IF Len(bs) = 1 THEN <<>>
    ELSE IF bs[2] = "e2" THEN <<"emoji">> \o DecodeChars(Tail(Tail(bs)))
    ELSE <<"fffd">> \o DecodeChars(Tail(bs))

Held(bs) == IF bs # <<>> /\ bs[Len(bs)] = "e1" THEN <<"e1">> ELSE <<>>

\* String.split('\n')
RECURSIVE Split(_)
Split(cs) ==
    IF \A k \in 1..Len(cs) : cs[k] # "nl" THEN <<cs>>
    ELSE LET k == CHOOSE k \in 1..Len(cs) :
                     cs[k] = "nl" /\ \A j \in 1..(k - 1) : cs[j] # "nl"
         IN  <<SubSeq(cs, 1, k - 1)>> \o Split(SubSeq(cs, k + 1, Len(cs)))

Whitespace == {"nl", "sp"}

\* String.trim()
RECURSIVE Trim(_)
Trim(cs) ==
    IF cs = <<>> THEN <<>>
    ELSE IF cs[1] \in Whitespace THEN Trim(Tail(cs))
    ELSE IF cs[Len(cs)] \in Whitespace THEN Trim(SubSeq(cs, 1, Len(cs) - 1))
    ELSE cs

\* trimmedLine.startsWith('data: ')
StartsWithData(cs) == Len(cs) >= 2 /\ cs[1] = "da" /\ cs[2] = "ta: "

\* JSON.parse: the id of the object, or a SyntaxError
JsonParse(cs) ==
    IF /\ Len(cs) >= 3
       /\ cs[1] = "{"
       /\ cs[Len(cs)] = "}"
       /\ cs[2] # "bad"
       /\ Payload(cs[2]) = cs
    THEN cs[2] ELSE "SyntaxError"

\* a log entry of the page
LogEntry(type, msg) == [type |-> type, msg |-> msg]

StopLog == LogEntry("warning", "stopped_by_user")

\* variant: the new entry is put in front of the list
HandleStreamDataPrepend(id, st) ==
    LET data == ClientFrame(id)
        entry == LogEntry(IF data.type # "" THEN data.type ELSE "info", id)
        s1 == IF "message" \in data.keys
              THEN [st EXCEPT !.logs = <<entry>> \o @,
                              !.home = <<entry>> \o st.logs]
              ELSE st
        s2 == IF "success" \in data.keys THEN [s1 EXCEPT !.result = id] ELSE s1
        throws == "error" \in data.keys
    IN  [s2 EXCEPT !.handled = Append(@, id),
                   !.threw = IF throws THEN data.tag ELSE "none"]

\* handleStreamData on the running state st of handleAnalyze
HandleStreamData(id, st) ==
    LET data == ClientFrame(id)
        entry == LogEntry(IF data.type # "" THEN data.type ELSE "info", id)
        s1 == IF "message" \in data.keys
              THEN [st EXCEPT !.logs = Append(@, entry),
                              !.home = Append(st.logs, entry)]
              ELSE st
        s2 == IF "success" \in data.keys THEN [s1 EXCEPT !.result = id] ELSE s1
        throws == "error" \in data.keys
    IN  [s2 EXCEPT !.handled = Append(@, id),
                   !.threw = IF throws THEN data.tag ELSE "none"]

\* variant: the catch around JSON.parse rethrows
ProcessLineRethrow(line, st) ==
    LET trimmedLine == Trim(line)
        jsonStr == Trim(SubSeq(trimmedLine, 3, Len(trimmedLine)))
    IN  IF ~ StartsWithData(trimmedLine) \/ jsonStr = <<>> THEN st
        ELSE IF JsonParse(jsonStr) = "SyntaxError"
        THEN [st EXCEPT !.dropped = @ + 1, !.threw = "syntax_error"]
        ELSE [HandleStreamData(JsonParse(jsonStr), st) EXCEPT !.threw = "none"]

\* the body of the for loop over the lines: whatever JSON.parse or
\* handleStreamData throws is caught and logged to the console
ProcessLine(line, st) ==
    LET trimmedLine == Trim(line)
        jsonStr == Trim(SubSeq(trimmedLine, 3, Len(trimmedLine)))
    IN  IF ~ StartsWithData(trimmedLine) \/ jsonStr = <<>> THEN st
        ELSE IF JsonParse(jsonStr) = "SyntaxError"
        THEN [st EXCEPT !.dropped = @ + 1]
        ELSE [HandleStreamData(JsonParse(jsonStr), st) EXCEPT !.threw = "none"]

RECURSIVE ProcessLines(_, _)
ProcessLines(lines, st) ==
    IF lines = <<>> \/ st.threw # "none" THEN st
    ELSE ProcessLines(Tail(lines), ProcessLine(lines[1], st))

\* variant: the partial last line is not kept
RestNotKept(lines) == <<>>

\* buffer = lines.pop() || ''
Rest(lines) == lines[Len(lines)]

\* variant: the trailing buffer is not looked at when the channel closes
FlushNone(cs, st) == st

\* the done branch: the lines of a non-blank buffer are processed
Flush(cs, st) == IF Trim(cs) # <<>> THEN ProcessLines(Split(cs), st) ELSE st

\* the running state of handleAnalyze
Running ==
    [logs |-> logs[Runner], home |-> homeLogs, result |-> result,
     handled |-> handled, dropped |-> dropped, threw |-> "none"]

Commit(st) ==
    /\ result' = st.result
    /\ handled' = st.handled
    /\ dropped' = st.dropped

\* handleAnalyze returns from its catch block without reporting
SilentReturn(st) ==
    /\ Commit(st)
    /\ cpc' = "done"
    /\ exit' = "aborted"
    /\ abortControllerRef' = [abortControllerRef EXCEPT ![Runner] = "null"]
    /\ logs' = [logs EXCEPT ![Runner] = st.logs]
    /\ homeLogs' = st.home
    /\ UNCHANGED <<isAnalyzing, error, signalAborted, homeIsAnalyzing, homeError,
                   currentScreen, analysisData, stopHandlerRef>>

\* the catch block of handleAnalyze entered with an error whose message is msg
Catch(st, msg, name) ==
    IF \/ name = "AbortError"
       \/ (abortControllerRef[Runner] = "controller" /\ signalAborted[Runner])
    THEN SilentReturn(st)
    ELSE LET errorLog == LogEntry("error", msg)
             updated == st.logs \o <<errorLog, errorLog>>
         IN  /\ Commit(st)
             /\ cpc' = "done"
             /\ exit' = "error"
             /\ logs' = [logs EXCEPT ![Runner] = updated]
             /\ homeLogs' = updated
             /\ error' = [error EXCEPT ![Runner] = msg]
             /\ isAnalyzing' = [isAnalyzing EXCEPT ![Runner] = FALSE]
             /\ abortControllerRef' = [abortControllerRef EXCEPT ![Runner] = "null"]
             /\ homeError' = msg
             /\ homeIsAnalyzing' = FALSE
             /\ stopHandlerRef' = "null"
             /\ UNCHANGED <<signalAborted, currentScreen, analysisData>>

\* the code after the read loop
AfterLoop(st) ==
    LET data == ClientFrame(st.result)
    IN  IF st.result = "null" THEN Catch(st, "no_result", "Error")
        ELSE IF ~ data.success
        THEN Catch(st, IF "error" \in data.keys THEN data.tag ELSE "analysis_failed", "Error")
        ELSE IF "data" \notin data.keys THEN Catch(st, "no_data", "Error")
        ELSE /\ Commit(st)
             /\ cpc' = "done"
             /\ exit' = "complete"
             /\ logs' = [logs EXCEPT ![Runner] = st.logs]
             /\ homeLogs' = st.home
             /\ analysisData' = TRUE
             /\ homeIsAnalyzing' = FALSE
             /\ currentScreen' = "dashboard"
             /\ stopHandlerRef' = "null"
             /\ abortControllerRef' = [abortControllerRef EXCEPT ![Runner] = "null"]
             /\ UNCHANGED <<isAnalyzing, error, signalAborted, homeError>>

\* a response is on its way to the page
InitClient ==
    /\ calls = <<>>
    /\ pc = "idle"
    /\ i = 0
    /\ results = <<>>
    /\ retryCount = 0
    /\ attempts = 0
    /\ delays = <<>>
    /\ fnError = NoError
    /\ caught = NoError
    /\ outcome = <<>>
    /\ emitted = <<>>
    /\ paces = <<>>
    /\ timer = 0
    /\ inflight = {}
    /\ thrown = NoThrow
    /\ pushAt = -1
    /\ aborted = FALSE
    /\ rpc = "idle"
    /\ pushed = <<>>
    /\ closed = FALSE
    /\ records = 0
    /\ lastFrame = "none"
    /\ path = "none"
    /\ currentModelConfig = "unset"
    /\ callConfig = "unset"
    /\ batchConfig = "unset"
    /\ sent \in Responses
    /\ \E newline \in BOOLEAN :
          wire = IF newline \/ sent = <<>> THEN WireOf(sent)
                 ELSE SubSeq(WireOf(sent), 1, Len(WireOf(sent)) - 2)
    /\ PageLoaded
    /\ NoReply
    /\ NoStatistics

\* the user presses Analyze: handleAnalyze up to the fetch
Analyze ==
    /\ cpc = "idle"
    /\ cpc' = "fetch"
    /\ abortControllerRef' = [abortControllerRef EXCEPT ![Runner] = "controller"]
    /\ signalAborted' = [signalAborted EXCEPT ![Runner] = FALSE]
    /\ isAnalyzing' = [isAnalyzing EXCEPT ![Runner] = TRUE]
    /\ logs' = [logs EXCEPT ![Runner] = <<>>]
    /\ error' = [error EXCEPT ![Runner] = ""]
    /\ homeIsAnalyzing' = TRUE
    /\ analysisData' = FALSE
    /\ homeError' = "null"
    /\ homeLogs' = <<>>
    /\ currentScreen' = "upload"
    /\ stopHandlerRef' = "panel"
    /\ UNCHANGED <<sent, wire, pending, buffer, result, handled, dropped,
                   splitPayload, exit, stopped>>

\* the fetch resolves with a status that is not ok
ResponseNotOk ==
    /\ cpc = "fetch"
    /\ ~ signalAborted[Runner]
    /\ Catch(Running, "server_error", "Error")
    /\ UNCHANGED <<sent, wire, pending, buffer, splitPayload, stopped>>

\* the fetch settles: rejected by an aborted signal, or the read loop starts
FetchResolved ==
    /\ cpc = "fetch"
    /\ IF signalAborted[Runner]
       THEN Catch(Running, "aborted", "AbortError")
       ELSE /\ cpc' = "read"
            /\ UNCHANGED <<result, handled, dropped, exit, logs, isAnalyzing,
                           error, abortControllerRef, signalAborted, homeLogs,
                           homeIsAnalyzing, homeError, currentScreen,
                           analysisData, stopHandlerRef>>
    /\ UNCHANGED <<sent, wire, pending, buffer, splitPayload, stopped>>

\* reader.read() gives the next n bytes: one turn of the loop (a read on an
\* aborted signal rejects, so the loop's own abort tests never see it first)
ReadChunk ==
    /\ cpc = "read"
    /\ wire # <<>>
    /\ \E n \in 1..Len(wire) :
        LET bytes == pending \o SubSeq(wire, 1, n)
            lines == Split(buffer \o DecodeChars(bytes))
            st == ProcessLines(SubSeq(lines, 1, Len(lines) - 1), Running)
        IN  /\ wire' = SubSeq(wire, n + 1, Len(wire))
            /\ IF signalAborted[Runner]
               THEN /\ Catch(Running, "aborted", "AbortError")
                    /\ UNCHANGED <<pending, buffer, splitPayload>>
               ELSE /\ pending' = Held(bytes)
                    /\ buffer' = Rest(lines)
                    /\ splitPayload' =
                          (splitPayload \/ (Len(buffer') >= 3 /\ buffer'[Len(buffer')] # "}")
                                        \/ (Len(buffer') >= 3 /\ pending' # <<>>))
                    /\ IF st.threw # "none"
                       THEN Catch(st, st.threw, "Error")
                       ELSE /\ Commit(st)
                            /\ logs' = [logs EXCEPT ![Runner] = st.logs]
                            /\ homeLogs' = st.home
                            /\ UNCHANGED <<cpc, exit, isAnalyzing, error,
                                           abortControllerRef, signalAborted,
                                           homeIsAnalyzing, homeError, currentScreen,
                                           analysisData, stopHandlerRef>>
    /\ UNCHANGED <<sent, stopped>>

\* reader.read() reports done: the flush, then the code after the loop
ReadDone ==
    /\ cpc = "read"
    /\ wire = <<>>
    /\ IF signalAborted[Runner]
       THEN Catch(Running, "aborted", "AbortError")
       ELSE LET st == Flush(buffer, Running)
            IN  IF st.threw # "none" THEN Catch(st, st.threw, "Error")
                ELSE AfterLoop(st)
    /\ UNCHANGED <<sent, wire, pending, buffer, splitPayload, stopped>>

\* handleStop of the instance c
HandleStop(c) ==
    LET updated == Append(logs[c], StopLog)
    IN  /\ signalAborted' = IF abortControllerRef[c] = "controller"
                            THEN [signalAborted EXCEPT ![c] = TRUE]
                            ELSE signalAborted
        /\ abortControllerRef' = [abortControllerRef EXCEPT ![c] = "null"]
        /\ homeLogs' = updated
        /\ homeIsAnalyzing' = FALSE
        /\ homeError' = "stopped_by_user"
        /\ stopHandlerRef' = "null"
        \* the panel's instance unmounts with the panel and loses its state
        /\ logs' = [logs EXCEPT ![c] = IF c = "panel" THEN <<>> ELSE updated]
        /\ isAnalyzing' = [isAnalyzing EXCEPT ![c] = FALSE]

\* the user presses Stop Analysis
Stop ==
    /\ homeIsAnalyzing
    /\ stopHandlerRef # "null"
    /\ HandleStop(stopHandlerRef)
    /\ stopped' = TRUE
    /\ UNCHANGED <<sent, wire, cpc, pending, buffer, result, handled, dropped,
                   splitPayload, exit, error, currentScreen, analysisData>>

NextClient ==
    \/ Analyze /\ UNCHANGED <<bvars, aborted, rvars, pvars, tvars, svars>>
    \/ ResponseNotOk /\ UNCHANGED <<bvars, aborted, rvars, pvars, tvars, svars>>
    \/ FetchResolved /\ UNCHANGED <<bvars, aborted, rvars, pvars, tvars, svars>>
    \/ ReadChunk /\ UNCHANGED <<bvars, aborted, rvars, pvars, tvars, svars>>
    \/ ReadDone /\ UNCHANGED <<bvars, aborted, rvars, pvars, tvars, svars>>
    \/ Stop /\ UNCHANGED <<bvars, aborted, rvars, pvars, tvars, svars>>

\* the page receiving one response
SpecClient == InitClient /\ [][NextClient]_vars

\* --------------------------- categorizeCall: from provider text to result
\* a JavaScript value: its kind, and the string, number or items it holds
JUndefined == [kind |-> "undefined", str |-> "", num |-> 0, items |-> <<>>]

JNull == [kind |-> "null", str |-> "", num |-> 0, items |-> <<>>]

JString(x) == [kind |-> "string", str |-> x, num |-> 0, items |-> <<>>]

JNumber(n) == [kind |-> "number", str |-> "", num |-> n, items |-> <<>>]

JArray(xs) == [kind |-> "array", str |-> "", num |-> 0, items |-> xs]

\* !v is false
Truthy(v) ==
    CASE v.kind = "undefined" -> FALSE
      [] v.kind = "null" -> FALSE
      [] v.kind = "string" -> v.str # ""
      [] v.kind = "number" -> v.num # 0
      [] OTHER -> TRUE

\* the objects a provider may put in its reply
CategoriesValues ==
    { JUndefined, JNull, JString("A"), JArray(<<>>), JArray(<<"A">>),
      JArray(<<"A", "B">>) }

SentimentValues ==
    { JUndefined, JString(""), JString("positive"), JString("neutral"),
      JString("negative"), JString("Positive"), JString("mixed"), JNumber(1) }

SummaryValues ==
    { JUndefined, JString(""), JString("summary"), JNumber(5), JArray(<<"summary">>) }

ReplyObjects ==
    [categories : CategoriesValues, sentiment : SentimentValues, summary : SummaryValues]

\* a character of the reply; an object's members travel as one character
Ch(c) == [ch |-> c, obj |-> [categories |-> JUndefined, sentiment |-> JUndefined,
                             summary |-> JUndefined]]

Members(o) == [ch |-> "members", obj |-> o]

ObjectText(o) == << Ch("{"), Members(o), Ch("}") >>

OtherObject ==
    [categories |-> JArray(<<"Z">>), sentiment |-> JString("negative"),
     summary |-> JString("other")]

\* the replies explored for the object o
ReplyTexts(o) ==
    { ObjectText(o),
      << Ch("fence_json"), Ch("nl") >> \o ObjectText(o) \o << Ch("nl"), Ch("fence") >>,
      << Ch("fence"), Ch("nl") >> \o ObjectText(o) \o << Ch("nl"), Ch("fence") >>,
      << Ch("sp"), Ch("nl") >> \o ObjectText(o) \o << Ch("nl") >>,
      << Ch("word"), Ch("sp") >> \o ObjectText(o),
      ObjectText(o) \o << Ch("sp"), Ch("word") >>,
      ObjectText(o) \o << Ch("sp"), Ch("word"), Ch("}") >>,
      ObjectText(o) \o << Ch("nl"), Ch("word"), Ch("{"), Ch("word"), Ch("}") >>,
      ObjectText(o) \o << Ch("nl") >> \o ObjectText(OtherObject),
      << Ch("word") >>,
      << Ch("{"), Members(o) >>,
      << Ch("{"), Ch("word"), Ch("}") >> }

\* String.trim()
RECURSIVE TrimText(_)
TrimText(cs) ==
    IF cs = <<>> THEN <<>>
    ELSE IF cs[1].ch \in Whitespace THEN TrimText(Tail(cs))
    ELSE IF cs[Len(cs)].ch \in Whitespace THEN TrimText(SubSeq(cs, 1, Len(cs) - 1))
    ELSE cs

\* String.replace(/<fence>\n?/g, ""): every fence goes, with the newline
\* that follows it
RECURSIVE RemoveFence(_, _)
RemoveFence(cs, fence) ==
    IF cs = <<>> THEN <<>>
    ELSE IF cs[1].ch # fence THEN <<cs[1]>> \o RemoveFence(Tail(cs), fence)
    ELSE IF Len(cs) >= 2 /\ cs[2].ch = "nl" THEN RemoveFence(Tail(Tail(cs)), fence)
    ELSE RemoveFence(Tail(cs), fence)

\* jsonText: the reply trimmed, without its code-fence markers, trimmed
JsonText(cs) == TrimText(RemoveFence(RemoveFence(TrimText(cs), "fence_json"), "fence"))

Positions(cs, c) == {k \in 1..Len(cs) : cs[k].ch = c}

Least(S) == CHOOSE k \in S : \A j \in S : k <= j

Greatest(S) == CHOOSE k \in S : \A j \in S : k >= j

\* jsonText.match(/\{[\s\S]*\}/): from the first opening brace to the last
\* closing brace after it; <<>> when there is no match
JsonMatch(cs) ==
    LET opens == Positions(cs, "{")
        closes == {k \in Positions(cs, "}") : opens # {} /\ k > Least(opens)}
    IN  IF closes = {} THEN <<>>
        ELSE SubSeq(cs, Least(opens), Greatest(closes))

\* JSON.parse accepts the text of one object
IsJson(cs) ==
    /\ Len(cs) = 3
    /\ cs[1].ch = "{"
    /\ cs[2].ch = "members"
    /\ cs[3].ch = "}"

\* variant: an empty categories array is kept
DefaultCategoriesKeepEmpty(v) ==
    IF ~ Truthy(v) \/ v.kind # "array" THEN JArray(<<"Unknown">>) ELSE v

\* the three defaulting tests on the parsed object
DefaultCategories(v) ==
    IF ~ Truthy(v) \/ v.kind # "array" \/ Len(v.items) = 0
    THEN JArray(<<"Unknown">>) ELSE v

DefaultSentiment(v) ==
    IF ~ Truthy(v) \/ ~ (v.kind = "string" /\ v.str \in {"positive", "neutral", "negative"})
    THEN JString("neutral") ELSE v

DefaultSummary(v) ==
    IF ~ Truthy(v) \/ v.kind # "string" THEN JString("No summary available") ELSE v

ApplyDefaults(parsed) ==
    [categories |-> DefaultCategories(parsed.categories),
     sentiment |-> DefaultSentiment(parsed.sentiment),
     summary |-> DefaultSummary(parsed.summary)]

\* fn of categorizeCall once the provider has returned cs
CategorizeText(cs) ==
    LET jsonMatch == JsonMatch(JsonText(cs))
    IN  IF jsonMatch = <<>>
        THEN [state |-> "threw", error |-> NoJsonError,
              tags |-> <<"extract_json_failed", "response_detail">>]
        ELSE IF ~ IsJson(jsonMatch)
        THEN [state |-> "threw", error |-> InvalidJsonError,
              tags |-> <<"parse_json_failed", "json_detail">>]
        ELSE [state |-> "returned", result |-> ApplyDefaults(jsonMatch[2].obj),
              tags |-> <<"call_analyzed">>]

\* a provider reply is at hand
InitCategorize ==
    /\ calls = <<>>
    /\ pc = "idle"
    /\ i = 0
    /\ results = <<>>
    /\ retryCount = 0
    /\ attempts = 0
    /\ delays = <<>>
    /\ fnError = NoError
    /\ caught = NoError
    /\ outcome = <<>>
    /\ emitted = <<>>
    /\ paces = <<>>
    /\ timer = 0
    /\ inflight = {}
    /\ thrown = NoThrow
    /\ pushAt = -1
    /\ aborted = FALSE
    /\ rpc = "idle"
    /\ pushed = <<>>
    /\ closed = FALSE
    /\ records = 0
    /\ lastFrame = "none"
    /\ path = "none"
    /\ currentModelConfig = "unset"
    /\ callConfig = "unset"
    /\ batchConfig = "unset"
    /\ sent = <<>>
    /\ wire = <<>>
    /\ PageLoaded
    /\ categorized = NotCategorized
    /\ NoStatistics
    /\ \E o \in ReplyObjects : replyText \in ReplyTexts(o)

\* fn runs from the provider's text to its return or throw
Categorize ==
    /\ categorized.state = "none"
    /\ replyText # <<>>
    /\ categorized' = CategorizeText(replyText)
    /\ UNCHANGED replyText

NextCategorize ==
    \/ Categorize /\ UNCHANGED <<bvars, aborted, rvars, pvars, cvars, svars>>

\* categorizeCall's fn on one provider reply
SpecCategorize == InitCategorize /\ [][NextCategorize]_vars

\* ================================================= calculateStatistics
\* the longest record list explored
MaxRecords == 2

\* a JS number: a ratio of integers in lowest terms, or NaN
Num(n) == [nan |-> FALSE, num |-> n, den |-> 1]

NaN == [nan |-> TRUE, num |-> 0, den |-> 1]

RECURSIVE Gcd(_, _)
Gcd(a, b) == IF b = 0 THEN a ELSE Gcd(b, a % b)

Ratio(n, d) == [nan |-> FALSE, num |-> n \div Gcd(n, d), den |-> d \div Gcd(n, d)]

\* a + b, a / n for n > 0, a * k
Add(a, b) ==
    IF a.nan \/ b.nan THEN NaN
    ELSE Ratio(a.num * b.den + b.num * a.den, a.den * b.den)

Div(a, n) == IF a.nan THEN NaN ELSE Ratio(a.num, a.den * n)

Times(a, k) == IF a.nan THEN NaN ELSE Ratio(a.num * k, a.den)

\* a CallData record, by the four fields calculateStatistics reads
Call(categories, sentiment, duration, phone) ==
    [categories |-> categories, sentiment |-> sentiment, duration |-> duration,
     phone |-> phone]

\* the records explored: several categories, a repeated category, none;
\* sentiments in other cases, unknown, empty, missing; a duration that the
\* workbook reader turned into NaN
RecordPool ==
    { Call(<<"A", "B">>, JString("positive"), Num(100), "p1"),
      Call(<<"A">>, JString("negative"), Num(50), "p2"),
      Call(<<"B">>, JString("Positive"), Num(0), "p1"),
      Call(<<>>, JString("NEGATIVE"), Num(30), "p2"),
      Call(<<"B", "A">>, JString(""), Num(20), "p1"),
      Call(<<"A", "A">>, JUndefined, Num(10), "p2"),
      Call(<<"C">>, JString("mixed"), Num(5), "p3"),
      Call(<<"C", "B">>, JString("neutral"), NaN, "p3") }

\* String.toLowerCase() on the sentiments explored
ToLowerCase(x) ==
    CASE x = "Positive" -> "positive"
      [] x = "NEGATIVE" -> "negative"
      [] OTHER -> x

\* variant: the sentiment is compared as written
SentimentOfExact(call) ==
    IF call.sentiment.kind # "string" \/ call.sentiment.str = "" THEN "neutral"
    ELSE call.sentiment.str

\* call.sentiment?.toLowerCase() || "neutral"
SentimentOf(call) ==
    IF call.sentiment.kind # "string" \/ ToLowerCase(call.sentiment.str) = ""
    THEN "neutral"
    ELSE ToLowerCase(call.sentiment.str)

NoTally == [positive |-> 0, neutral |-> 0, negative |-> 0]

\* variant: a sentiment that is neither positive nor negative is not tallied
TallyKnownOnly(t, sentiment) ==
    IF sentiment = "positive" THEN [t EXCEPT !.positive = @ + 1]
    ELSE IF sentiment = "negative" THEN [t EXCEPT !.negative = @ + 1]
    ELSE t

\* the if / else if / else that increments one of the three counters
Tally(t, sentiment) ==
    IF sentiment = "positive" THEN [t EXCEPT !.positive = @ + 1]
    ELSE IF sentiment = "negative" THEN [t EXCEPT !.negative = @ + 1]
    ELSE [t EXCEPT !.neutral = @ + 1]

\* the body of the inner forEach: categoryMap, a Map, is the sequence of its
\* entries in insertion order
Touch(map, category, call) ==
    LET has == \E k \in 1..Len(map) : map[k].category = category
        m == IF has THEN map
             ELSE Append(map, [category |-> category, count |-> 0, customers |-> {},
                               sentiment |-> NoTally])
    IN  [k \in 1..Len(m) |->
            IF m[k].category = category
            THEN [m[k] EXCEPT !.count = @ + 1,
                              !.customers = @ \cup {call.phone},
                              !.sentiment = Tally(@, SentimentOf(call))]
            ELSE m[k]]

\* variant: only the first category of a record is counted
TouchAllFirstOnly(map, categories, call) ==
    IF categories = <<>> THEN map
    ELSE Touch(map, Head(categories), call)

\* call.categories.forEach
RECURSIVE TouchAll(_, _, _)
TouchAll(map, categories, call) ==
    IF categories = <<>> THEN map
    ELSE TouchAll(Touch(map, Head(categories), call), Tail(categories), call)

\* calls.forEach
RECURSIVE CategoryMap(_, _)
CategoryMap(map, cs) ==
    IF cs = <<>> THEN map
    ELSE CategoryMap(TouchAll(map, Head(cs).categories, Head(cs)), Tail(cs))

\* variant: a percentage never exceeds 100
CategoryStatCapped(data, n) ==
    [category |-> data.category,
     count |-> data.count,
     percentage |-> Times(Div(Num(Min(data.count, n)), n), 100),
     sentiment |-> data.sentiment]

\* the object map() makes of one entry, for n records
CategoryStat(data, n) ==
    [category |-> data.category,
     count |-> data.count,
     percentage |-> Times(Div(Num(data.count), n), 100),
     sentiment |-> data.sentiment]

\* variant: an element goes before the elements of the same count
InsertBeforeEqual(sorted, x) ==
    LET k == Cardinality({j \in 1..Len(sorted) : sorted[j].count > x.count})
    IN  SubSeq(sorted, 1, k) \o <<x>> \o SubSeq(sorted, k + 1, Len(sorted))

\* x goes behind the elements whose count is not smaller
Insert(sorted, x) ==
    LET k == Cardinality({j \in 1..Len(sorted) : sorted[j].count >= x.count})
    IN  SubSeq(sorted, 1, k) \o <<x>> \o SubSeq(sorted, k + 1, Len(sorted))

\* sort((a, b) => b.count - a.count): by count, descending, stable
RECURSIVE SortByCount(_)
SortByCount(seq) ==
    IF seq = <<>> THEN <<>>
    ELSE Insert(SortByCount(SubSeq(seq, 1, Len(seq) - 1)), seq[Len(seq)])

\* calls.reduce((sum, call) => sum + call.duration, 0)
RECURSIVE TotalDuration(_)
TotalDuration(cs) ==
    IF cs = <<>> THEN Num(0)
    ELSE Add(TotalDuration(SubSeq(cs, 1, Len(cs) - 1)), cs[Len(cs)].duration)

\* variant: the records that list no category are left out of the divisor
AvgDurationOverListed(cs) ==
    LET listed == Cardinality({k \in 1..Len(cs) : cs[k].categories # <<>>})
    IN  IF listed > 0 THEN Div(TotalDuration(cs), listed) ELSE Num(0)

AvgDuration(cs) ==
    IF Len(cs) > 0 THEN Div(TotalDuration(cs), Len(cs)) ELSE Num(0)

\* variant: a record is tallied once for each category it lists
RECURSIVE SentimentCountsPerListing(_)
SentimentCountsPerListing(cs) ==
    IF cs = <<>> THEN NoTally
    ELSE LET t == SentimentCountsPerListing(SubSeq(cs, 1, Len(cs) - 1))
             c == cs[Len(cs)]
         IN  IF c.categories = <<>> THEN t
             ELSE IF Len(c.categories) = 1 THEN Tally(t, SentimentOf(c))
             ELSE Tally(Tally(t, SentimentOf(c)), SentimentOf(c))

\* the second calls.forEach
RECURSIVE SentimentCounts(_)
SentimentCounts(cs) ==
    IF cs = <<>> THEN NoTally
    ELSE Tally(SentimentCounts(SubSeq(cs, 1, Len(cs) - 1)), SentimentOf(cs[Len(cs)]))

\* variant: the list is emptied while it is read
CallsAfterDrained(cs) == <<>>

\* the argument when the function returns: forEach, reduce and length read it,
\* nothing is assigned to it or to a record
CallsAfter(cs) == cs

\* the object calculateStatistics returns for cs at time t
AnalysisData(cs, t) ==
    LET categoryMap == CategoryMap(<<>>, cs)
        categories == SortByCount([k \in 1..Len(categoryMap) |->
                                      CategoryStat(categoryMap[k], Len(cs))])
        top == SubSeq(categories, 1, Min(10, Len(categories)))
    IN  [state |-> "returned",
         totalCalls |-> Len(cs),
         categorizedCalls |-> Len(cs),
         categories |-> categories,
         calls |-> CallsAfter(cs),
         summary |-> [answerRate |-> 100,
                      avgDuration |-> AvgDuration(cs),
                      totalDuration |-> TotalDuration(cs),
                      sentimentDistribution |-> SentimentCounts(cs),
                      topCategories |-> [k \in 1..Len(top) |-> top[k].category]],
         timestamp |-> t]

\* a caller holds a list of records
InitStatistics ==
    /\ calls = <<>>
    /\ pc = "idle"
    /\ i = 0
    /\ results = <<>>
    /\ retryCount = 0
    /\ attempts = 0
    /\ delays = <<>>
    /\ fnError = NoError
    /\ caught = NoError
    /\ outcome = <<>>
    /\ emitted = <<>>
    /\ paces = <<>>
    /\ timer = 0
    /\ inflight = {}
    /\ thrown = NoThrow
    /\ pushAt = -1
    /\ aborted = FALSE
    /\ rpc = "idle"
    /\ pushed = <<>>
    /\ closed = FALSE
    /\ records = 0
    /\ lastFrame = "none"
    /\ path = "none"
    /\ currentModelConfig = "unset"
    /\ callConfig = "unset"
    /\ batchConfig = "unset"
    /\ sent = <<>>
    /\ wire = <<>>
    /\ PageLoaded
    /\ NoReply
    /\ \E n \in 0..MaxRecords : callsArg \in [1..n -> RecordPool]
    /\ stats = NoSnapshot
    /\ statsBefore = NoSnapshot
    /\ clock = 0

\* one call of calculateStatistics on the list; the caller keeps what the
\* call before returned, and the time of the second call may be later
CalculateStatistics ==
    /\ statsBefore = NoSnapshot
    /\ \E t \in {clock, clock + 1} :
        /\ stats' = AnalysisData(callsArg, t)
        /\ clock' = t
    /\ statsBefore' = stats
    /\ callsArg' = CallsAfter(callsArg)

NextStatistics ==
    \/ CalculateStatistics /\ UNCHANGED <<bvars, aborted, rvars, pvars, cvars, tvars>>

\* calculateStatistics called twice on one list
SpecStatistics == InitStatistics /\ [][NextStatistics]_vars

TypeOK ==
    /\ pc \in {"idle", "call", "backoff", "pace", "returned", "thrown"}
    /\ i \in 0..MaxCalls
    /\ retryCount \in 0..maxRetries

\* ======================================================== properties
\* s holds sub as a contiguous run
ContainsSeq(s, sub) ==
    \E a \in 0..(Len(s) - Len(sub)) : SubSeq(s, a + 1, a + Len(sub)) = sub

\* status 429 with a message containing "exceeded"
Status429Exceeded(e) ==
    e.status = 429 /\ \E k \in 1..Len(e.msg) : e.msg[k] = "exceeded"

IsFallbackFor(r, e) ==
    /\ r.categories = <<"UNCATEGORIZED - API ERROR">>
    /\ r.sentiment = "neutral"
    /\ ContainsSeq(r.summary, e.msg)

\* C1: when the batch returns, results has one entry per work item and entry k
\* is what categorizeCall returned for calls[k], or the fallback built from the
\* error it threw for calls[k]; nothing is skipped, duplicated or reordered.
C1_OneResultPerItem ==
    pc = "returned" =>
        /\ Len(results) = Len(calls)
        /\ Len(outcome) = Len(calls)
        /\ \A k \in 1..Len(calls) :
              /\ outcome[k].item = k - 1
              /\ IF outcome[k].ok
                 THEN /\ results[k] = outcome[k].result
                      /\ results[k] \in { Normalize(p) :
                                            p \in ParsedReplies(calls[k].transcript) }
                 ELSE IsFallbackFor(results[k], outcome[k].error)

C1_Witness ==
    /\ pc = "returned"
    /\ Len(calls) = 2
    /\ ~ outcome[1].ok
    /\ outcome[2].ok
    /\ results[2].summary = <<"t2">>

\* C2: a step in which the classification of item i fails with an error that is
\* not the fatal one appends exactly one fallback at position i and leaves the
\* batch on its way to item i+1 (pacing sleep, then the call of item i+1).
C2_Step ==
    /\ (caught = NoError /\ caught' # NoError /\ ~ Status429Exceeded(caught')) =>
          /\ Len(results') = Len(results) + 1
          /\ Len(results') = i + 1
          /\ SubSeq(results', 1, Len(results)) = results
          /\ IsFallbackFor(results'[i + 1], caught')
          /\ thrown' = NoThrow
          /\ pc' = IF i < Len(calls) - 1 THEN "pace" ELSE "returned"
    /\ pc = "pace" =>
          /\ pc' = "call"
          /\ i' = i + 1
          /\ attempts' = 1
          /\ inflight' = {i + 1}
          /\ results' = results

C2_FallbackThenNext == [][C2_Step]_vars

C2_Witness ==
    /\ pc = "call"
    /\ i = 1
    /\ Len(results) = 1
    /\ results[1].categories = <<"UNCATEGORIZED - API ERROR">>
    /\ results[1].summary = <<"Failed", "to", "analyze:", "No", "JSON", "found">>

\* C3: once the classification of an item has failed with status 429 and a
\* message containing "exceeded", the batch has raised an error, no provider
\* call is outstanding and no further step (hence no provider call) follows.
C3_Step ==
    /\ Status429Exceeded(caught') =>
          /\ pc' = "thrown"
          /\ thrown'.tag = "rate_limit_exceeded_after_retries"
          /\ inflight' = {}
          /\ timer' = 0
    /\ pc # "thrown"

C3_FatalAbortStops == [][C3_Step]_vars

C3_Witness ==
    /\ pc = "thrown"
    /\ Len(calls) = 2
    /\ i = 0
    /\ Status429Exceeded(caught)

\* C4: the error raised on a fatal abort carries the number of items that were
\* classified without fallback before the failing item.
C4_CarriesSuccessfulCount ==
    pc = "thrown" =>
        thrown.processed = Cardinality({k \in 1..Len(outcome) : outcome[k].ok})

\* C5: the batch raises an error only on a status-429 failure whose message
\* contains "exceeded"; any other classification failure leaves a fallback as
\* the last result, raises nothing, and the batch goes on to the last item.
C5_OnlyFatalAborts ==
    /\ pc = "thrown" => Status429Exceeded(caught)
    /\ (caught # NoError /\ ~ Status429Exceeded(caught)) =>
          /\ thrown = NoThrow
          /\ pc \in {"pace", "returned"}
          /\ results[Len(results)].categories = <<"UNCATEGORIZED - API ERROR">>
    /\ (pc = "returned" /\ Len(calls) > 0) => i = Len(calls) - 1

C5_Witness ==
    /\ pc = "returned"
    /\ Len(calls) = 2
    /\ outcome[1].error.status = 429
    /\ ~ outcome[1].ok
    /\ outcome[2].ok

\* C6: fn is invoked at most 6 times per retryWithBackoff call, whatever mix of
\* 429, 503 and 5xx failures occurs; when the 6th invocation fails with such an
\* error, that error is the one that reaches the caller.
C6_AtMostSixTries ==
    /\ attempts <= 6
    /\ retryCount = (IF attempts = 0 THEN 0 ELSE attempts - 1)
    /\ (attempts = 6 /\ fnError # NoError
          /\ (fnError.status = 429 \/ (fnError.status >= 500 /\ fnError.status < 600))) =>
          /\ caught = fnError
          /\ pc \in {"pace", "returned", "thrown"}
          /\ Len(delays) = 5

C6_Witness ==
    /\ attempts = 6
    /\ caught.status = 500
    /\ delays = <<5000, 20000, 60000, 40000, 160000>>

\* C7: the wait before retry n (n = 0..4) is min(base * 2^n, cap) with base/cap
\* 5000/90000 for 429, 10000/180000 for 503, 15000/120000 for other 5xx; a run
\* of 429 failures waits 5000, 10000, 20000, 40000, 80000 ms.
C7_BackoffDelays ==
    pc = "backoff" =>
        LET n == retryCount
            m(base, cap) == IF base * (2 ^ n) < cap THEN base * (2 ^ n) ELSE cap
        IN  /\ n \in 0..4
            /\ Len(delays) = n + 1
            /\ delays[n + 1] = timer
            /\ fnError.status = 429 =>
                  /\ timer = m(5000, 90000)
                  /\ timer = <<5000, 10000, 20000, 40000, 80000>>[n + 1]
            /\ fnError.status = 503 => timer = m(10000, 180000)
            /\ (fnError.status >= 500 /\ fnError.status < 600 /\ fnError.status # 503) =>
                  timer = m(15000, 120000)

C7_Witness ==
    /\ pc = "backoff"
    /\ delays = <<5000, 10000, 20000, 40000, 80000>>

\* C8: when fn fails with anything but status 429, 503 or 500..599, fn is not
\* invoked again for the item, no backoff wait starts, and the failure ends in
\* the orchestrator's per-item fallback.
C8_Step ==
    (fnError' # NoError /\ fnError'.status # 429
        /\ ~ (fnError'.status >= 500 /\ fnError'.status < 600)) =>
        /\ attempts' = attempts
        /\ delays' = delays
        /\ pc' \in {"pace", "returned"}
        /\ timer' \in {0, 10000}
        /\ caught' # NoError
        /\ IF fnError'.status = 400
                /\ (fnError'.code = "context_length_exceeded"
                      \/ ContainsSeq(fnError'.msg, <<"length">>)
                      \/ ContainsSeq(fnError'.msg, <<"context">>))
           THEN caught'.status = 0
           ELSE caught' = fnError'
        /\ Len(results') = Len(results) + 1
        /\ IsFallbackFor(results'[Len(results')], caught')

C8_OtherNotRetried == [][C8_Step]_vars

C8_Witness ==
    /\ caught = InvalidJsonError
    /\ attempts = 3
    /\ Len(delays) = 2
    /\ pc = "pace"

\* C9: when fn fails with status 400 and a context-length marker (error code
\* context_length_exceeded, or "length" or "context" in the message), at any
\* attempt number, fn is not invoked again, retryWithBackoff emits exactly one
\* log entry, of level error, and the error that reaches the caller is the
\* "data is too large, try with fewer calls" error, not the provider's.
C9_Step ==
    (fnError'.status = 400
        /\ (fnError'.code = "context_length_exceeded"
              \/ ContainsSeq(fnError'.msg, <<"length">>)
              \/ ContainsSeq(fnError'.msg, <<"context">>))) =>
        /\ attempts' = attempts
        /\ delays' = delays
        /\ pc' \notin {"call", "backoff"}
        /\ caught' = Err(0, <<"data", "too", "large", "try", "fewer", "calls">>, "")
        /\ caught' # fnError'
        /\ Len(emitted') >= 2
        /\ emitted'[1] = L("error", "context_length_exceeded", 0, 0, <<>>)
        /\ emitted'[2].tag = "error_processing_call"
        /\ emitted'[2].text = caught'.msg
        /\ \A k \in 2..Len(emitted') : emitted'[k].tag # "context_length_exceeded"

C9_ContextLengthTerminal == [][C9_Step]_vars

C9_Witness ==
    /\ caught = TooLargeError
    /\ attempts = 4
    /\ fnError.code = "context_length_exceeded"

\* C10: at most one provider call is outstanding, it belongs to the current
\* item i, and it is outstanding only when the results of items 0..i-1 have
\* been appended, one pacing sleep per earlier item has been started and no
\* sleep is pending.
C10_OneCallInFlight ==
    /\ Cardinality(inflight) <= 1
    /\ inflight # {} =>
          /\ inflight = {i}
          /\ pc = "call"
          /\ timer = 0
          /\ Len(results) = i
          /\ Len(paces) = i

C10_Witness ==
    /\ inflight = {1}
    /\ Len(results) = 1
    /\ paces = <<10000>>

C12_Step == (aborted /\ pc = "pace") => (pc' # "call" /\ attempts' = attempts /\ i' = i)

C12_StopsAfterCancel == [][C12_Step]_vars

\* C15: on every path of the streaming handler exactly one record that is not
\* a LogEvent is pushed; it is the last frame of its step and of the stream,
\* the stream is closed in the same step, and a handler that has ended has
\* pushed it.
C15_OneTerminalRecordLast ==
    /\ records <= 1
    /\ \A k \in 1..Len(pushed) :
          ~ IsLogEvent(pushed[k]) => (k = Len(pushed) /\ closed)
    /\ closed <=> records = 1
    /\ closed => (lastFrame = "record" /\ rpc = "closed")
    /\ rpc \in {"closed", "errored"} => (closed /\ path # "none")

C15_Witness ==
    /\ closed
    /\ path = "exception"
    /\ pc = "thrown"
    /\ Len(pushed) = 2

\* C16: every frame pushed on the stream is a LogEvent or carries the key
\* success.
C16_FramesWellFormed ==
    \A k \in 1..Len(pushed) :
        IsLogEvent(pushed[k]) \/ "success" \in pushed[k].keys

\* C20: a step in which a provider call attempt fails delivers a warning or
\* error LogEvent, before the fallback is appended when the step appends one;
\* and a failure record is pushed only after an error LogEvent of its step.
C20_Attempt ==
    (rpc = "batch" /\ pc = "call" /\ fnError' # NoError) =>
        \E k \in 1..Len(pushed') :
            /\ pushed'[k].type \in {"warning", "error"}
            /\ pushAt' >= 0 => k <= pushAt'

C20_Record ==
    \A k \in 1..Len(pushed') :
        (~ IsLogEvent(pushed'[k]) /\ ~ pushed'[k].success) =>
            \E j \in 1..(k - 1) :
                IsLogEvent(pushed'[j]) /\ pushed'[j].type = "error"

C20_LogBeforeFailure == [][C20_Attempt /\ C20_Record]_vars

\* the batch half of C20 taken alone
C20_AttemptOnly == [][C20_Attempt]_vars

\* the frames of a response that parse
Parsable(ids) == SelectSeq(ids, LAMBDA x : x # "bad")

IsPrefix(a, b) == Len(a) <= Len(b) /\ SubSeq(b, 1, Len(a)) = a

\* C13: once Stop has been pressed no step changes the log list Home shows and
\* no step switches Home to the dashboard.
C13_Step == stopped => (homeLogs' = homeLogs /\ currentScreen' # "dashboard")

C13_NothingAfterStop == [][C13_Step]_vars

\* C14: the step that stops the analysis leaves Home without an error and
\* with a log list that ends in the stop notice and holds no error entry.
C14_Step ==
    (~ stopped /\ stopped') =>
        /\ homeError' = "null"
        /\ homeLogs' # <<>>
        /\ homeLogs'[Len(homeLogs')] = StopLog
        /\ \A k \in 1..Len(homeLogs') : homeLogs'[k].type # "error"

C14_StopIsClean == [][C14_Step]_vars

\* C17: however the bytes are cut into chunks, the frames handled are always
\* a prefix of the parsable frames sent, no finished line waits in the
\* buffer, and once the response is consumed they are all of them, in order.
C17_FramesReassembled ==
    /\ IsPrefix(handled, Parsable(sent))
    /\ \A k \in 1..Len(buffer) : buffer[k] # "nl"
    /\ (cpc = "done" /\ wire = <<>>) => handled = Parsable(sent)

C17_Witness ==
    /\ cpc = "done"
    /\ exit = "complete"
    /\ splitPayload
    /\ sent = <<"log1", "log2", "ok">>
    /\ handled = sent

\* C18: an unparsable frame is counted as dropped and nothing else: the read
\* loop goes on, the frames after it are handled, and a response that ends
\* with the success record still completes the analysis.
C18_BadFrameDropped ==
    /\ exit = "error" => error[Runner] # "syntax_error"
    /\ ("bad" \in {sent[k] : k \in 1..Len(sent)} /\ cpc = "done" /\ wire = <<>>) =>
          /\ dropped = 1
          /\ handled = Tail(sent)
          /\ sent[Len(sent)] = "ok" => (exit = "complete" /\ analysisData)

C18_Witness ==
    /\ sent = <<"bad", "log1", "ok">>
    /\ exit = "complete"
    /\ dropped = 1
    /\ handled = <<"log1", "ok">>
    /\ currentScreen = "dashboard"

\* C19: when the response is consumed and the reader reports done, the step
\* handles the frame left in the buffer, ends handleAnalyze, and reports
\* 'no result received' when no frame with a success key was handled.
C19_Step ==
    (cpc = "read" /\ wire = <<>> /\ stopped' = stopped) =>
        /\ cpc' = "done"
        /\ handled' = Parsable(sent)
        /\ result' = "null" =>
              /\ exit' = "error"
              /\ error'[Runner] = "no_result"
              /\ homeError' = "no_result"
              /\ ~ homeIsAnalyzing'

C19_CloseEndsLoop == [][C19_Step]_vars

C19_Witness ==
    /\ cpc = "done"
    /\ sent = <<"log1">>
    /\ buffer # <<>>
    /\ handled = <<"log1">>
    /\ error[Runner] = "no_result"

\* C21: every provider call of the handler's batch reads the provider that
\* was stored when the batch started.
C21_BatchKeepsConfig ==
    (rpc = "batch" /\ pc = "call") => callConfig = batchConfig

\* the object JSON.parse gave fn for the reply
ParsedObject == JsonMatch(JsonText(replyText))[2].obj

\* C22: a result returned by fn has a non-empty categories list, ["Unknown"]
\* when the parsed categories are missing, not a list or empty and the parsed
\* list otherwise; a sentiment among the three, "neutral" unless the parsed one
\* is among them; a non-empty text summary, the placeholder when the parsed
\* one is missing or not text.
C22_ResultDefaulted ==
    categorized.state = "returned" =>
        LET r == categorized.result
            o == ParsedObject
        IN  /\ r.categories.kind = "array"
            /\ r.categories.items # <<>>
            /\ r.categories = IF o.categories.kind = "array" /\ o.categories.items # <<>>
                              THEN o.categories ELSE JArray(<<"Unknown">>)
            /\ r.sentiment \in {JString("positive"), JString("neutral"), JString("negative")}
            /\ r.sentiment = IF o.sentiment \in {JString("positive"), JString("negative")}
                             THEN o.sentiment ELSE JString("neutral")
            /\ r.summary.kind = "string"
            /\ r.summary.str # ""
            /\ r.summary = IF o.summary.kind = "string" /\ o.summary.str # ""
                           THEN o.summary ELSE JString("No summary available")

C22_Witness ==
    /\ categorized.state = "returned"
    /\ ParsedObject = [categories |-> JArray(<<>>), sentiment |-> JString("Positive"),
                       summary |-> JNumber(5)]
    /\ categorized.result = [categories |-> JArray(<<"Unknown">>),
                             sentiment |-> JString("neutral"),
                             summary |-> JString("No summary available")]

\* the first {...} of cs: from the first opening brace to the first closing
\* brace after it; <<>> when there is none
FirstObject(cs) ==
    LET opens == Positions(cs, "{")
        closes == {k \in Positions(cs, "}") : opens # {} /\ k > Least(opens)}
    IN  IF closes = {} THEN <<>>
        ELSE SubSeq(cs, Least(opens), Least(closes))

\* C23: when the first {...} of the reply, fences stripped, is a JSON object,
\* fn returns the defaulted form of that object, whatever follows it.
C23_FirstObjectParsed ==
    LET first == FirstObject(JsonText(replyText))
    IN  (categorized.state # "none" /\ first # <<>> /\ IsJson(first)) =>
            /\ categorized.state = "returned"
            /\ categorized.result = ApplyDefaults(first[2].obj)

\* ------------------------------------------- calculateStatistics
\* the category names of the records explored
CategoryNames == {"A", "B", "C"}

\* how many times the records of cs that satisfy Test list category c
Listings(cs, c, Test(_)) ==
    Cardinality(UNION {
        {<<r, k>> : k \in {j \in 1..Len(cs[r].categories) : cs[r].categories[j] = c}} :
        r \in {q \in 1..Len(cs) : Test(cs[q])} })

AnyCall(call) == TRUE

\* the entries of the returned categories list for category c
EntriesOf(c) == {k \in 1..Len(stats.categories) : stats.categories[k].category = c}

\* C24: a category's count is the number of times the category is listed over
\* all records, and the categories returned are the categories listed.
C24_CountIsListings ==
    stats.state = "returned" =>
        \A c \in CategoryNames :
            /\ (EntriesOf(c) # {}) <=> (Listings(callsArg, c, AnyCall) > 0)
            /\ \A k \in EntriesOf(c) :
                stats.categories[k].count = Listings(callsArg, c, AnyCall)

C24_Witness ==
    /\ stats.state = "returned"
    /\ Len(callsArg) = 2
    /\ callsArg[1].categories = <<"A", "B">>
    /\ callsArg[2].categories = <<"A">>
    /\ \E j, k \in 1..Len(stats.categories) :
        /\ stats.categories[j].category = "A" /\ stats.categories[j].count = 2
        /\ stats.categories[k].category = "B" /\ stats.categories[k].count = 1

\* a sentiment that is "positive", "negative" in some letter case
IsPositive(call) ==
    call.sentiment \in {JString("positive"), JString("Positive"), JString("POSITIVE")}

IsNegative(call) ==
    call.sentiment \in {JString("negative"), JString("Negative"), JString("NEGATIVE")}

IsNeither(call) == ~ IsPositive(call) /\ ~ IsNegative(call)

HowMany(cs, Test(_)) == Cardinality({k \in 1..Len(cs) : Test(cs[k])})

\* C25: a record is tallied as positive when its sentiment is "positive" in
\* any letter case, as negative when it is "negative" in any letter case, and
\* as neutral otherwise (missing and empty included), in the tally of each
\* category it lists and in the global tally.
C25_SentimentCaseInsensitive ==
    stats.state = "returned" =>
        /\ stats.summary.sentimentDistribution =
               [positive |-> HowMany(callsArg, IsPositive),
                neutral |-> HowMany(callsArg, IsNeither),
                negative |-> HowMany(callsArg, IsNegative)]
        /\ \A k \in 1..Len(stats.categories) :
            LET c == stats.categories[k]
            IN  c.sentiment = [positive |-> Listings(callsArg, c.category, IsPositive),
                               neutral |-> Listings(callsArg, c.category, IsNeither),
                               negative |-> Listings(callsArg, c.category, IsNegative)]

C25_Witness ==
    /\ stats.state = "returned"
    /\ Len(callsArg) = 2
    /\ callsArg[1].sentiment = JString("Positive")
    /\ callsArg[2].sentiment = JUndefined
    /\ stats.summary.sentimentDistribution = [positive |-> 1, neutral |-> 1, negative |-> 0]
    /\ \E k \in 1..Len(stats.categories) :
        /\ stats.categories[k].category = "B"
        /\ stats.categories[k].sentiment.positive = 1

\* the categories of cs in the order in which the scan meets them
RECURSIVE Flatten(_)
Flatten(cs) == IF cs = <<>> THEN <<>> ELSE Head(cs).categories \o Flatten(Tail(cs))

FirstSeen(cs, c) == Least({k \in 1..Len(Flatten(cs)) : Flatten(cs)[k] = c})

\* C26: the categories list is in non-increasing order of count, categories
\* of equal count are in first-seen order, and no name appears twice.
C26_SortedStable ==
    stats.state = "returned" =>
        \A j, k \in 1..Len(stats.categories) :
            j < k =>
                LET a == stats.categories[j]
                    b == stats.categories[k]
                IN  /\ a.category # b.category
                    /\ a.count >= b.count
                    /\ a.count = b.count =>
                           FirstSeen(callsArg, a.category) < FirstSeen(callsArg, b.category)

C26_Witness ==
    /\ stats.state = "returned"
    /\ Flatten(callsArg) = <<"C", "B", "A", "A">>
    /\ stats.summary.topCategories = <<"A", "C", "B">>

\* C27: a category's percentage is its count divided by the number of records
\* times 100, whatever the other categories' percentages are.
C27_PercentageOfRecords ==
    stats.state = "returned" =>
        \A k \in 1..Len(stats.categories) :
            LET c == stats.categories[k]
            IN  /\ ~ c.percentage.nan
                /\ c.percentage.num * Len(callsArg) = c.count * 100 * c.percentage.den

C27_Witness ==
    /\ stats.state = "returned"
    /\ Len(callsArg) = 2
    /\ \E j, k \in 1..Len(stats.categories) :
        /\ stats.categories[j].count = 3 /\ stats.categories[j].percentage = Num(150)
        /\ stats.categories[k].count = 1 /\ stats.categories[k].percentage = Num(50)

\* the sum of the durations of cs, none of which is NaN
RECURSIVE SumOfDurations(_)
SumOfDurations(cs) ==
    IF cs = <<>> THEN 0 ELSE Head(cs).duration.num + SumOfDurations(Tail(cs))

SomeNaN(cs) == \E k \in 1..Len(cs) : cs[k].duration.nan

\* C28: totalDuration is the sum of the durations (NaN when one of them is
\* NaN), avgDuration is totalDuration divided by the number of records, and
\* avgDuration is 0 for the empty list.
C28_Durations ==
    stats.state = "returned" =>
        LET total == stats.summary.totalDuration
            avg == stats.summary.avgDuration
        IN  /\ total = IF SomeNaN(callsArg) THEN NaN ELSE Num(SumOfDurations(callsArg))
            /\ callsArg = <<>> => avg = Num(0)
            /\ (callsArg # <<>> /\ SomeNaN(callsArg)) => avg = NaN
            /\ (callsArg # <<>> /\ ~ SomeNaN(callsArg)) =>
                   /\ ~ avg.nan
                   /\ avg.num * Len(callsArg) = SumOfDurations(callsArg) * avg.den

C28_Witness ==
    /\ stats.state = "returned"
    /\ Len(callsArg) = 2
    /\ callsArg[1].duration = Num(100)
    /\ callsArg[2].duration = Num(50)
    /\ stats.summary.totalDuration = Num(150)
    /\ stats.summary.avgDuration = Num(75)

\* C29: the three counters of the global tally add up to the number of
\* records, whatever the number of categories each record lists.
C29_GlobalTallyOncePerRecord ==
    stats.state = "returned" =>
        LET t == stats.summary.sentimentDistribution
        IN  /\ t.positive + t.neutral + t.negative = stats.totalCalls
            /\ stats.totalCalls = Len(callsArg)

C29_Witness ==
    /\ stats.state = "returned"
    /\ Len(callsArg) = 2
    /\ callsArg[1].categories = <<>>
    /\ Len(callsArg[2].categories) = 2
    /\ stats.summary.sentimentDistribution = [positive |-> 1, neutral |-> 0, negative |-> 1]

\* a snapshot without its timestamp
Untimed(snapshot) == [snapshot EXCEPT !.timestamp = 0]

\* C30: a call leaves the list and its records as they were, and a second
\* call on the list returns what the first returned, timestamp aside.
C30_Step ==
    /\ callsArg' = callsArg
    /\ stats'.state = "returned" => stats'.calls = callsArg
    /\ (stats.state = "returned" /\ stats'.state = "returned") =>
           Untimed(stats') = Untimed(stats)

RECURSIVE SumOfCounts(_)
SumOfCounts(n) ==
    IF n = 0 THEN 0 ELSE stats.categories[n].count + SumOfCounts(n - 1)

\* C39: in the returned categories list each sentiment tally adds up to the
\* category's count, each count is at least 1, and the counts add up to the
\* number of category entries of all records.
C39_TalliesAndCounts ==
    stats.state = "returned" =>
        /\ \A k \in 1..Len(stats.categories) :
            LET c == stats.categories[k]
            IN  /\ c.sentiment.positive + c.sentiment.neutral + c.sentiment.negative = c.count
                /\ c.count >= 1
        /\ SumOfCounts(Len(stats.categories)) = Len(Flatten(callsArg))

C39_Witness ==
    /\ stats.state = "returned"
    /\ Len(callsArg) = 2
    /\ Len(Flatten(callsArg)) = 4
    /\ Len(stats.categories) = 2
    /\ \E k \in 1..Len(stats.categories) :
        /\ stats.categories[k].count = 3
        /\ stats.categories[k].sentiment = [positive |-> 1, neutral |-> 2, negative |-> 0]

\* the largest of the three caps of the backoff delays
LargestCap ==
    CHOOSE c \in {RateLimitCap, OverloadedCap, ServerErrorCap} :
        \A d \in {RateLimitCap, OverloadedCap, ServerErrorCap} : d <= c

\* C31: when every provider call settles, an item takes at most 6 provider
\* calls and 5 backoff delays, none longer than the largest cap, and the batch
\* ends: it returns or raises.
C31_ItemsAndBatchTerminate ==
    /\ [](/\ attempts <= 6
          /\ Len(delays) <= 5
          /\ \A k \in 1..Len(delays) : delays[k] <= LargestCap)
    /\ <>(pc \in {"returned", "thrown"})

C31_Witness ==
    /\ pc = "returned"
    /\ Len(calls) = 2
    /\ attempts = 6
    /\ Len(delays) = 5
    /\ Len(results) = 2

\* the warnings among the log calls of the last step
Warnings == SelectSeq(emitted, LAMBDA l : l.type = "warning")

\* C33: while a backoff delay runs, the step that started it has logged
\* exactly one warning, which states the delay in seconds and the attempt
\* number retryCount + 1 (at most maxRetries), and fn is not running: it is
\* invoked again only by the step that ends the delay.
C33_OneWarningPerRetry ==
    pc = "backoff" =>
        /\ Len(Warnings) = 1
        /\ Warnings[1].tag \in {"rate_limit_retry", "overloaded_retry", "server_error_retry"}
        /\ Warnings[1].n * 1000 = timer
        /\ Warnings[1].m = retryCount + 1
        /\ Warnings[1].m <= maxRetries
        /\ timer = delays[Len(delays)]
        /\ timer > 0
        /\ inflight = {}
        /\ attempts = retryCount + 1

C33_Witness ==
    /\ pc = "backoff"
    /\ fnError.status = 503
    /\ retryCount = 2
    /\ Len(emitted) = 2
    /\ Warnings = << L("warning", "overloaded_retry", 40, 3, <<>>) >>

\* C36: an error of status 429 is in the orchestrator's failure handler, and
\* so the batch is fatally aborted, only when fn has been invoked 6 times for
\* the item and the 5 retries have been used.
C36_FatalOnlyAfterRetries ==
    (pc = "thrown" \/ caught.status = 429) =>
        /\ attempts = maxRetries + 1
        /\ retryCount = maxRetries
        /\ Len(delays) = maxRetries
        /\ fnError = caught

C36_Witness ==
    /\ pc = "thrown"
    /\ Len(calls) = 2
    /\ i = 1
    /\ attempts = 6
    /\ delays = <<15000, 20000, 20000, 40000, 80000>>
    /\ thrown.processed = 2

\* C32: when the batch has been fatally aborted, the record that ends the
\* stream carries data: the list of the records enriched so far.
C32_ShorterListReceived ==
    (rpc = "closed" /\ pc = "thrown") =>
        /\ pushed # <<>>
        /\ "data" \in pushed[Len(pushed)].keys

\* C37: a request rejected before the batch starts leaves currentModelConfig
\* as it was when the request arrived.
C37_RejectKeepsConfig ==
    path \in {"no_file", "no_provider", "invalid_provider", "not_excel",
              "invalid_structure"} =>
        currentModelConfig = "unset"

\* the LogEvents among the frames ids, in order
LogEventsOf(ids) ==
    SelectSeq(ids, LAMBDA x : \E k \in 1..Len(LogIds) : LogIds[k] = x)

\* the texts of the entries Home shows that come from LogEvents
ShownLogEvents ==
    LogEventsOf([k \in 1..Len(homeLogs) |-> homeLogs[k].msg])

\* C34: while Home shows the progress panel, the entries it shows for
\* LogEvents are a prefix of the LogEvents sent, in the order sent, and a step
\* that leaves the panel shown only appends to the list.
C34_Step ==
    /\ (homeIsAnalyzing /\ homeIsAnalyzing') => IsPrefix(homeLogs, homeLogs')
    /\ homeIsAnalyzing' => IsPrefix(ShownLogEvents', LogEventsOf(sent))

C34_OrderedAppendOnly == [][C34_Step]_vars

C34_Witness ==
    /\ homeIsAnalyzing
    /\ cpc = "read"
    /\ wire # <<>>
    /\ dropped = 1
    /\ Len(homeLogs) = 2
    /\ homeLogs[1].msg = "log1"
    /\ homeLogs[2].msg = "log2"

\* the record that ended the stream, as the receiver handled it
LastHandled == handled[Len(handled)]

\* C35: when the last record handled is a failure record with error text E,
\* with or without a success field, handleAnalyze ends reporting E.
C35_ServerErrorReported ==
    (cpc = "done" /\ ~ stopped /\ handled # <<>> /\ LastHandled \in {"fail", "reject"}) =>
        /\ exit = "error"
        /\ error[Runner] = ClientFrame(LastHandled).tag
        /\ homeError = ClientFrame(LastHandled).tag

\* C38: when an analysis completes, the receiver holds one log entry for each
\* LogEvent sent and no other entry.
C38_OneEntryPerLogEvent ==
    (cpc = "done" /\ exit = "complete" /\ ~ stopped /\ dropped = 0) =>
        /\ Len(logs[Runner]) = Len(LogEventsOf(sent))
        /\ Len(homeLogs) = Len(LogEventsOf(sent))

====
